---- MODULE Spec2Model ----
(***************************************************************************)
(* State-machine model of the QAStudio.dev Playwright reporter             *)
(* (src/src/index.ts, the reporter with the test-run readiness promise,    *)
(* and src/unnamed/part_000, the reporter that submits results in batches; *)
(* the variable reporter says which of the two classes is instantiated).   *)
(*                                                                         *)
(* The reporter is a single-threaded JavaScript object.  Each action below *)
(* is one synchronous stretch of a hook or of a promise continuation: it   *)
(* runs from one suspension point (an await on a remote request) to the    *)
(* next.  The remote service (./api-client) is the environment: every      *)
(* request it is handed settles later, either way, in its own action.      *)
(* Playwright is the other part of the environment: it calls onBegin once, *)
(* does not wait for it, reports test attempts as they start and end, and  *)
(* calls onEnd when no attempt is running.                                 *)
(***************************************************************************)
EXTENDS Integers, Sequences, FiniteSets

\* ------------------------------------------------------------------ bounds
MaxTests == 2          \* number of test cases Playwright runs
MaxAttachments == 2    \* longest attachment list of one test result

\* ------------------------------------------------------------------ values
NoValue == "<undefined>"                 \* JavaScript undefined / null
CreatedRunId == "run-1"                  \* id the remote returns on creation
ExistingRunId == "run-0"                 \* a testRunId given in the options
ErrorMessages == {"quota exceeded", "ECONNRESET"}
Statuses == {"passed", "failed", "timedOut", "skipped", "interrupted"}

Tests == 1..MaxTests
\* test.retries of test case t, and its title (tests 1 and 3 share a title)
Retries(t) == t % 2
Title(t) == IF t % 2 = 1 THEN "login" ELSE "logout"
\* getTestId: the title path, unique per test case
getTestId(t) == t

\* result.attachments of one test result, after extractAttachmentsAsBuffers:
\* the attachment types of the lists of up to MaxAttachments entries that
\* Playwright hands over (a screenshot first, then a video or other files)
AttachmentType(k) ==
  IF k = 1 THEN "screenshot" ELSE IF k % 2 = 0 THEN "other" ELSE "video"
AttachmentLists ==
  {[k \in 1..n |-> AttachmentType(k)] : n \in 0..MaxAttachments}

VARIABLES
  options,               \* this.options (the fields the hooks read)
  testRunId,             \* this.state.testRunId
  tests,                 \* this.state.tests (the keys of the map)
  totalTests, passedTests, failedTests, skippedTests,
  flushPromises,         \* this.flushPromises: <<[promise, testTitle]>>
  uploadFailures,        \* this.uploadFailures: <<[testTitle, error]>>
  testRunReadyResolved,  \* whether testRunReadyPromise has been resolved
  testRunCreationError,  \* this.testRunCreationError (its message)
  promises,              \* every sendPromise chain created, by index
  beginPc,               \* position of the onBegin call
  endPc,                 \* position of the onEnd call
  runner,                \* Playwright: per test case, phase and retry index
  createRequests,        \* createTestRun requests sent
  completeRequests,      \* completeTestRun requests sent
  warnings,              \* console.warn lines printed by onEnd
  beginThrown,           \* message of the error onBegin rejected with
  endThrown,             \* message of the error onEnd rejected with
  reporter,              \* which reporter class is instantiated
  resultQueue,           \* batched reporter: this.resultQueue
  flushes,               \* batched reporter: every flushPromise chain created
  apiClient              \* this.apiClient: the transport's request in hand

vars == <<options, testRunId, tests, totalTests, passedTests, failedTests,
          skippedTests, flushPromises, uploadFailures, testRunReadyResolved,
          testRunCreationError, promises, beginPc, endPc, runner,
          createRequests, completeRequests, warnings, beginThrown,
          endThrown, reporter, resultQueue, flushes, apiClient>>

\* Never written by a hook after construction
config == <<options, reporter, apiClient>>
\* Fields that only the batched reporter has
batched == <<resultQueue, flushes>>
counters == <<totalTests, passedTests, failedTests, skippedTests>>
gate == <<testRunId, testRunReadyResolved, testRunCreationError>>

\* ------------------------------------------------------------- constructor
\* options.maxRetries when the user gives none
maxRetries == 3

\* new QAStudioAPIClient(options): no request in hand.  budget is the
\* client's maxRetries; retry429 says whether a 429 answer is retried.
NewClient(budget, retry429) ==
  [maxRetries |-> budget, retry429 |-> retry429, pc |-> "idle",
   attempts |-> <<>>, errors |-> <<>>]

OptionSets ==
  [silent : BOOLEAN, createTestRun : BOOLEAN,
   testRunId : {NoValue, ExistingRunId},
   uploadScreenshots : BOOLEAN, uploadVideos : {TRUE}]

Init ==
  /\ options \in OptionSets
  /\ testRunId = NoValue
  /\ tests = {}
  /\ totalTests = 0 /\ passedTests = 0 /\ failedTests = 0 /\ skippedTests = 0
  /\ flushPromises = <<>>
  /\ uploadFailures = <<>>
  /\ testRunReadyResolved = FALSE
  /\ testRunCreationError = NoValue
  /\ promises = <<>>
  /\ beginPc = "idle"
  /\ endPc = "idle"
  /\ runner = [t \in Tests |-> [phase |-> "idle", retry |-> 0]]
  /\ createRequests = 0
  /\ completeRequests = <<>>
  /\ warnings = <<>>
  /\ beginThrown = NoValue
  /\ endThrown = NoValue
  /\ reporter = "gated"
  /\ resultQueue = <<>>
  /\ flushes = <<>>
  /\ apiClient = NewClient(maxRetries, TRUE)

\* ---------------------------------------------------------------- scheduling
\* A continuation that hangs off an already resolved promise is a microtask:
\* JavaScript runs it before the next hook call or network answer.  The only
\* such continuations here are the then callbacks on testRunReadyPromise.
MicrotasksDrained ==
  \A i \in DOMAIN promises :
    promises[i].pc = "waiting" => ~testRunReadyResolved

\* -------------------------------------------------------------- handleError
\* fullMessage of handleError(message, error)
FullMessage(message, errorMessage) == message \o ": " \o errorMessage
\* A plausible slip: handleError only logs, whatever options.silent is.
HandleErrorNeverThrows == FALSE
\* A plausible slip: handleError throws, whatever options.silent is.
HandleErrorAlwaysThrows == TRUE
\* handleError throws unless options.silent
HandleErrorThrows == ~options.silent

\* ------------------------------------------------------------------ onBegin
\* A plausible slip: createTestRun is not awaited, so finally resolves the
\* readiness promise while the request is still in flight.
OnBeginNotAwaited ==
  /\ MicrotasksDrained
  /\ beginPc = "idle"
  /\ endPc = "idle"
  /\ IF options.createTestRun /\ options.testRunId = NoValue
       THEN /\ createRequests' = createRequests + 1
            /\ beginPc' = "creating"
            /\ testRunReadyResolved' = TRUE
            /\ UNCHANGED <<testRunId, testRunCreationError>>
       ELSE /\ testRunId' = options.testRunId
            /\ testRunReadyResolved' = TRUE
            /\ beginPc' = "done"
            /\ UNCHANGED <<createRequests, testRunCreationError>>
  /\ UNCHANGED <<config, batched, tests, counters, flushPromises, uploadFailures,
                 promises, endPc, runner, completeRequests, warnings,
                 beginThrown, endThrown>>

\* A plausible slip: the run is created whenever createTestRun is set, also
\* when a testRunId was supplied.
OnBeginAlwaysCreates ==
  /\ MicrotasksDrained
  /\ beginPc = "idle"
  /\ endPc = "idle"
  /\ IF options.createTestRun
       THEN /\ createRequests' = createRequests + 1
            /\ beginPc' = "creating"
            /\ UNCHANGED gate
       ELSE /\ testRunId' = options.testRunId
            /\ testRunReadyResolved' = TRUE
            /\ beginPc' = "done"
            /\ UNCHANGED <<createRequests, testRunCreationError>>
  /\ UNCHANGED <<config, batched, tests, counters, flushPromises, uploadFailures,
                 promises, endPc, runner, completeRequests, warnings,
                 beginThrown, endThrown>>

\* A plausible slip: the readiness promise is resolved only on the path that
\* creates a run, so with a configured run id it stays pending.
OnBeginResolvesOnlyAfterCreate ==
  /\ MicrotasksDrained
  /\ beginPc = "idle"
  /\ endPc = "idle"
  /\ IF options.createTestRun /\ options.testRunId = NoValue
       THEN /\ createRequests' = createRequests + 1
            /\ beginPc' = "creating"
            /\ UNCHANGED gate
       ELSE /\ testRunId' = options.testRunId
            /\ beginPc' = "done"
            /\ UNCHANGED <<createRequests, testRunCreationError,
                           testRunReadyResolved>>
  /\ UNCHANGED <<config, batched, tests, counters, flushPromises, uploadFailures,
                 promises, endPc, runner, completeRequests, warnings,
                 beginThrown, endThrown>>

\* The synchronous start of onBegin: either the createTestRun request is
\* sent and onBegin suspends, or the configured id is taken and the finally
\* block resolves the readiness promise at once.
OnBegin ==
  /\ MicrotasksDrained
  /\ beginPc = "idle"
  /\ endPc = "idle"
  /\ IF options.createTestRun /\ options.testRunId = NoValue
       THEN /\ createRequests' = createRequests + 1
            /\ beginPc' = "creating"
            /\ UNCHANGED gate
       ELSE /\ testRunId' = options.testRunId
            /\ testRunReadyResolved' = TRUE
            /\ beginPc' = "done"
            /\ UNCHANGED <<createRequests, testRunCreationError>>
  /\ UNCHANGED <<config, batched, tests, counters, flushPromises, uploadFailures,
                 promises, endPc, runner, completeRequests, warnings,
                 beginThrown, endThrown>>

\* createTestRun fulfilled: the id is stored, then finally resolves the gate.
OnBeginCreated ==
  /\ MicrotasksDrained
  /\ beginPc = "creating"
  /\ testRunId' = CreatedRunId
  /\ testRunReadyResolved' = TRUE
  /\ beginPc' = "done"
  /\ UNCHANGED <<config, batched, tests, counters, flushPromises, uploadFailures,
                 testRunCreationError, promises, endPc, runner,
                 createRequests, completeRequests, warnings, beginThrown,
                 endThrown>>

\* A plausible slip: the resolve call sits after handleError instead of in a
\* finally block, so a throwing handleError skips it.
OnBeginCreateFailedNoFinally(e) ==
  /\ MicrotasksDrained
  /\ beginPc = "creating"
  /\ testRunCreationError' = e
  /\ testRunReadyResolved' = ~HandleErrorThrows
  /\ beginPc' = IF HandleErrorThrows THEN "threw" ELSE "done"
  /\ beginThrown' = IF HandleErrorThrows
                      THEN FullMessage("Failed to create test run", e)
                      ELSE beginThrown
  /\ UNCHANGED <<config, batched, testRunId, tests, counters, flushPromises,
                 uploadFailures, promises, endPc, runner, createRequests,
                 completeRequests, warnings, endThrown>>

\* createTestRun rejected with message e: the error is stored, handleError
\* logs or throws, and finally resolves the gate in both cases.
OnBeginCreateFailed(e) ==
  /\ MicrotasksDrained
  /\ beginPc = "creating"
  /\ testRunCreationError' = e
  /\ testRunReadyResolved' = TRUE
  /\ beginPc' = IF HandleErrorThrows THEN "threw" ELSE "done"
  /\ beginThrown' = IF HandleErrorThrows
                      THEN FullMessage("Failed to create test run", e)
                      ELSE beginThrown
  /\ UNCHANGED <<config, batched, testRunId, tests, counters, flushPromises,
                 uploadFailures, promises, endPc, runner, createRequests,
                 completeRequests, warnings, endThrown>>

\* -------------------------------------------------------------- onTestBegin
OnTestBegin(t) ==
  /\ MicrotasksDrained
  /\ beginPc # "idle"
  /\ endPc = "idle"
  /\ runner[t].phase = "idle"
  /\ tests' = tests \cup {getTestId(t)}
  /\ runner' = [runner EXCEPT ![t].phase = "running"]
  /\ UNCHANGED <<config, batched, gate, counters, flushPromises, uploadFailures,
                 promises, beginPc, endPc, createRequests, completeRequests,
                 warnings, beginThrown, endThrown>>

\* ---------------------------------------------------------------- onTestEnd
\* The attachment filter of onTestEnd
KeepAttachment(type) ==
  /\ ~(type = "screenshot" /\ ~options.uploadScreenshots)
  /\ ~(type = "video" /\ ~options.uploadVideos)
filteredAttachments(attachmentBuffers) ==
  SelectSeq(attachmentBuffers, KeepAttachment)

\* The outcome object of a sendPromise chain
Success == [success |-> TRUE, error |-> NoValue]
Failure(error) == [success |-> FALSE, error |-> error]

\* A freshly created sendPromise: the chain hangs off testRunReadyPromise.
NewSendPromise(t, attachments) ==
  [test |-> t, title |-> Title(t), attachments |-> attachments,
   pc |-> "waiting", state |-> "pending", value |-> Success,
   pendingAtCall |-> ~testRunReadyResolved,
   observed |-> [testRunId |-> NoValue, error |-> NoValue],
   submit |-> "none", submitRunId |-> NoValue,
   testResultId |-> 0, attachmentsSent |-> {}, attachmentsPending |-> {},
   attachmentsFailed |-> {}]

\* Playwright runs a further attempt after a failed one while retries remain.
WillRetry(t, status) ==
  status \in {"failed", "timedOut"} /\ runner[t].retry < Retries(t)

\* A plausible slip: the switch has no case for interrupted.
CountStatusWithoutInterrupted(status) ==
  /\ totalTests' = totalTests + 1
  /\ passedTests' = passedTests + (IF status = "passed" THEN 1 ELSE 0)
  /\ failedTests' =
       failedTests + (IF status \in {"failed", "timedOut"} THEN 1 ELSE 0)
  /\ skippedTests' =
       skippedTests + (IF status = "skipped" THEN 1 ELSE 0)

CountStatus(status) ==
  /\ totalTests' = totalTests + 1
  /\ passedTests' = passedTests + (IF status = "passed" THEN 1 ELSE 0)
  /\ failedTests' =
       failedTests + (IF status \in {"failed", "timedOut"} THEN 1 ELSE 0)
  /\ skippedTests' =
       skippedTests + (IF status \in {"skipped", "interrupted"} THEN 1 ELSE 0)

OnTestEnd(t, status, attachmentBuffers) ==
  /\ MicrotasksDrained
  /\ endPc = "idle"
  /\ runner[t].phase = "running"
  /\ runner' = [runner EXCEPT ![t] =
                  IF WillRetry(t, status)
                    THEN [phase |-> "idle", retry |-> @.retry + 1]
                    ELSE [phase |-> "finished", retry |-> @.retry]]
  /\ IF getTestId(t) \notin tests
       THEN UNCHANGED <<counters, flushPromises, promises>>
       ELSE IF runner[t].retry = Retries(t)
         THEN /\ CountStatus(status)
              /\ promises' = Append(promises,
                    NewSendPromise(t, filteredAttachments(attachmentBuffers)))
              /\ flushPromises' = Append(flushPromises,
                    [promise |-> Len(promises) + 1, testTitle |-> Title(t)])
         ELSE UNCHANGED <<counters, flushPromises, promises>>
  /\ UNCHANGED <<config, batched, gate, tests, uploadFailures, beginPc, endPc,
                 createRequests, completeRequests, warnings, beginThrown,
                 endThrown>>

\* ---------------------------------------------- the sendPromise chain
\* A plausible slip: the generic message also when a creation error is stored.
GateThenGeneric(runId, creationError) ==
  IF runId = NoValue
    THEN [throws |-> TRUE, error |-> "Test run was not created successfully"]
    ELSE [throws |-> FALSE, error |-> NoValue]

\* First .then callback of the chain: it runs once testRunReadyPromise has
\* resolved and reads the run id and the stored creation error.
GateThen(runId, creationError) ==
  IF runId = NoValue
    THEN IF creationError # NoValue
           THEN [throws |-> TRUE,
                 error |-> "Test run creation failed: " \o creationError]
           ELSE [throws |-> TRUE,
                 error |-> "Test run was not created successfully"]
    ELSE [throws |-> FALSE, error |-> NoValue]

\* .then(() => ({success: true})): the chain fulfils with a success object
ChainFulfilled == [state |-> "fulfilled", value |-> Success]
\* A plausible slip: no .catch at the end of the chain.
ChainUncaught(error) == [state |-> "rejected", value |-> Failure(error)]

\* .catch(error => ({success: false, error})): a rejection anywhere up the
\* chain fulfils the chain with a failure object
ChainCaught(error) == [state |-> "fulfilled", value |-> Failure(error)]

Settle(p, outcome) ==
  [p EXCEPT !.pc = "settled", !.state = outcome.state,
            !.value = outcome.value]

\* The run id and creation error a chain read when the gate let it through
Observe(p) ==
  [p EXCEPT !.observed =
     [testRunId |-> testRunId, error |-> testRunCreationError]]

\* A plausible slip: the request carries options.testRunId, not the state's.
SendTestResultWithOptionId(p) ==
  IF testRunId = NoValue
    THEN Settle(p, ChainFulfilled)
    ELSE [p EXCEPT !.pc = "submitting", !.submit = "inflight",
                   !.submitRunId = options.testRunId]

\* What sendTestResult does up to its first await: nothing without a run id,
\* else the submitTestResults request for this one result is sent.
SendTestResult(p) ==
  IF testRunId = NoValue
    THEN Settle(p, ChainFulfilled)
    ELSE [p EXCEPT !.pc = "submitting", !.submit = "inflight",
                   !.submitRunId = testRunId]

\* The gate has resolved: the chain of promise i proceeds.
TaskGateThen(i) ==
  /\ i \in DOMAIN promises
  /\ promises[i].pc = "waiting"
  /\ testRunReadyResolved
  /\ LET r == GateThen(testRunId, testRunCreationError)
         p == Observe(promises[i])
     IN promises' = [promises EXCEPT ![i] =
          IF r.throws THEN Settle(p, ChainCaught(r.error))
                      ELSE SendTestResult(p)]
  /\ UNCHANGED <<config, batched, gate, tests, counters, flushPromises,
                 uploadFailures, beginPc, endPc, runner, createRequests,
                 completeRequests, warnings, beginThrown, endThrown>>

\* A plausible slip: one rejected request fails every request in flight.
TaskSubmitRejectedFailsAll(i, e) ==
  /\ MicrotasksDrained
  /\ i \in DOMAIN promises
  /\ promises[i].pc = "submitting"
  /\ promises' = [j \in DOMAIN promises |->
       IF promises[j].pc = "submitting"
         THEN Settle([promises[j] EXCEPT !.submit = "rejected"],
                     ChainCaught(e))
         ELSE promises[j]]
  /\ UNCHANGED <<config, batched, gate, tests, counters, flushPromises,
                 uploadFailures, beginPc, endPc, runner, createRequests,
                 completeRequests, warnings, beginThrown, endThrown>>

\* submitTestResults rejected with message e.
TaskSubmitRejected(i, e) ==
  /\ MicrotasksDrained
  /\ i \in DOMAIN promises
  /\ promises[i].pc = "submitting"
  /\ promises' = [promises EXCEPT ![i] =
       Settle([@ EXCEPT !.submit = "rejected"], ChainCaught(e))]
  /\ UNCHANGED <<config, batched, gate, tests, counters, flushPromises,
                 uploadFailures, beginPc, endPc, runner, createRequests,
                 completeRequests, warnings, beginThrown, endThrown>>

\* uploadAttachments: nothing for an empty list, else every upload request is
\* issued at once and the chain waits for all of them to settle.
UploadAttachments(p, testResultId) ==
  IF Len(p.attachments) = 0
    THEN Settle(p, ChainFulfilled)
    ELSE [p EXCEPT !.pc = "attaching", !.testResultId = testResultId,
                   !.attachmentsSent = DOMAIN p.attachments,
                   !.attachmentsPending = DOMAIN p.attachments]

\* A plausible slip: attachments are uploaded without looking at
\* response.results.
AfterSubmitUnchecked(p, hasResults, testResultId) ==
  LET q == [p EXCEPT !.submit =
              IF hasResults THEN "confirmed" ELSE "unconfirmed"]
  IN IF Len(q.attachments) > 0
       THEN UploadAttachments(q, testResultId)
       ELSE Settle(q, ChainFulfilled)

\* The rest of sendTestResult once the response is in: attachments are
\* uploaded only if response.results is non-empty and there are attachments.
AfterSubmit(p, hasResults, testResultId) ==
  LET q == [p EXCEPT !.submit =
              IF hasResults THEN "confirmed" ELSE "unconfirmed"]
  IN IF hasResults /\ Len(q.attachments) > 0
       THEN UploadAttachments(q, testResultId)
       ELSE Settle(q, ChainFulfilled)

\* submitTestResults fulfilled; hasResults tells whether response.results
\* lists the record (with its testResultId) or the response only reports
\* an error for it.
TaskSubmitResponded(i, hasResults) ==
  /\ MicrotasksDrained
  /\ i \in DOMAIN promises
  /\ promises[i].pc = "submitting"
  /\ promises' = [promises EXCEPT ![i] = AfterSubmit(@, hasResults, i)]
  /\ UNCHANGED <<config, batched, gate, tests, counters, flushPromises,
                 uploadFailures, beginPc, endPc, runner, createRequests,
                 completeRequests, warnings, beginThrown, endThrown>>

\* A plausible slip: no .catch on the single upload, joined by Promise.all.
AttachmentSettledUncaught(p, a, ok) ==
  LET q == [p EXCEPT !.attachmentsPending = @ \ {a},
                     !.attachmentsFailed = IF ok THEN @ ELSE @ \cup {a}]
  IN IF ~ok THEN Settle(q, ChainCaught("attachment upload failed"))
     ELSE IF q.attachmentsPending = {} THEN Settle(q, ChainFulfilled) ELSE q

\* One uploadAttachment request settles.  Its own .then/.catch swallows the
\* result either way; Promise.allSettled continues after the last one.
AttachmentSettled(p, a, ok) ==
  LET q == [p EXCEPT !.attachmentsPending = @ \ {a},
                     !.attachmentsFailed = IF ok THEN @ ELSE @ \cup {a}]
  IN IF q.attachmentsPending = {} THEN Settle(q, ChainFulfilled) ELSE q

TaskAttachmentSettled(i, a, ok) ==
  /\ MicrotasksDrained
  /\ i \in DOMAIN promises
  /\ promises[i].pc = "attaching"
  /\ a \in promises[i].attachmentsPending
  /\ promises' = [promises EXCEPT ![i] = AttachmentSettled(@, a, ok)]
  /\ UNCHANGED <<config, batched, gate, tests, counters, flushPromises,
                 uploadFailures, beginPc, endPc, runner, createRequests,
                 completeRequests, warnings, beginThrown, endThrown>>

\* -------------------------------------------------------------------- onEnd
\* A plausible slip: the execution total is reported as uploaded.
calculateUploadedCountsNoFailures(failures) ==
  [total |-> totalTests,
   passed |-> passedTests, failed |-> failedTests, skipped |-> skippedTests]

\* A plausible slip: the failures are also taken off the passed count.
calculateUploadedCountsFromPassed(failures) ==
  [total |-> totalTests - Len(failures),
   passed |-> passedTests - Len(failures),
   failed |-> failedTests, skipped |-> skippedTests]

\* A plausible slip: every joined outcome is collected as a failure.
RECURSIVE CollectFailuresOfAll(_)
CollectFailuresOfAll(items) ==
  IF items = <<>> THEN <<>>
  ELSE <<[testTitle |-> Head(items).testTitle,
          error |-> promises[Head(items).promise].value.error]>>
       \o CollectFailuresOfAll(Tail(items))

\* calculateUploadedCounts, for the failure list collected so far
calculateUploadedCounts(failures) ==
  [total |-> totalTests - Len(failures),
   passed |-> passedTests, failed |-> failedTests, skipped |-> skippedTests]

WarnLine(kind, title, error, count) ==
  [kind |-> kind, testTitle |-> title, error |-> error, count |-> count]

ItemLine(failure) == WarnLine("item", failure.testTitle, failure.error, 0)

RECURSIVE ItemLines(_)
ItemLines(failures) ==
  IF failures = <<>> THEN <<>>
  ELSE <<ItemLine(Head(failures))>> \o ItemLines(Tail(failures))

\* A plausible slip: some instead of every.
allFailuresSomeDueToTestRunCreation(failures) ==
  /\ testRunCreationError # NoValue
  /\ \E k \in DOMAIN failures :
       failures[k].error =
         "Test run creation failed: " \o testRunCreationError

\* The failure report of onEnd for the collected failure list
allFailuresDueToTestRunCreation(failures) ==
  /\ testRunCreationError # NoValue
  /\ \A k \in DOMAIN failures :
       failures[k].error =
         "Test run creation failed: " \o testRunCreationError

FailureReport(failures) ==
  IF Len(failures) > 0
    THEN IF allFailuresDueToTestRunCreation(failures)
           THEN <<WarnLine("creationFailed", NoValue, testRunCreationError,
                           totalTests)>>
           ELSE <<WarnLine("listHeader", NoValue, NoValue, Len(failures))>>
                \o ItemLines(failures)
                \o <<WarnLine("listFooter", NoValue, NoValue, totalTests)>>
    ELSE <<>>

\* A plausible slip: each failure is pushed twice (once more on the
\* verbose path).
RECURSIVE CollectFailuresTwice(_)
CollectFailuresTwice(items) ==
  IF items = <<>> THEN <<>>
  ELSE (IF promises[Head(items).promise].value.success
          THEN <<>>
          ELSE <<[testTitle |-> Head(items).testTitle,
                  error |-> promises[Head(items).promise].value.error],
                 [testTitle |-> Head(items).testTitle,
                  error |-> promises[Head(items).promise].value.error]>>)
       \o CollectFailuresTwice(Tail(items))

\* Failures collected by sendTestResults from the joined results, in order
\* The failure record takes its title from the first tracked item.
FailureOfFirstItem(item) ==
  [testTitle |-> flushPromises[1].testTitle,
   error |-> promises[item.promise].value.error]

FailureOf(item) ==
  [testTitle |-> item.testTitle, error |-> promises[item.promise].value.error]

RECURSIVE CollectFailures(_)
CollectFailures(items) ==
  IF items = <<>> THEN <<>>
  ELSE (IF promises[Head(items).promise].value.success
          THEN <<>> ELSE <<FailureOf(Head(items))>>)
       \o CollectFailures(Tail(items))

\* onEnd after sendTestResults has returned, up to its next await: the
\* failure report, then the completeTestRun request if there is a run id.
AfterSendTestResults ==
  /\ warnings' = warnings \o FailureReport(uploadFailures')
  /\ IF testRunId # NoValue
       THEN /\ completeRequests' = Append(completeRequests,
                 [testRunId |-> testRunId,
                  summary |-> calculateUploadedCounts(uploadFailures')])
            /\ endPc' = "completing"
       ELSE /\ endPc' = "done"
            /\ UNCHANGED completeRequests

\* onEnd is called.  sendTestResults returns at once without a run id or
\* with nothing tracked; otherwise it suspends on Promise.all.
OnEnd ==
  /\ MicrotasksDrained
  /\ endPc = "idle"
  /\ \A t \in Tests : runner[t].phase # "running"
  /\ IF testRunId = NoValue \/ Len(flushPromises) = 0
       THEN /\ UNCHANGED uploadFailures
            /\ AfterSendTestResults
       ELSE /\ endPc' = "joining"
            /\ UNCHANGED <<uploadFailures, completeRequests, warnings>>
  /\ UNCHANGED <<config, batched, gate, tests, counters, flushPromises, promises,
                 beginPc, runner, createRequests, beginThrown, endThrown>>

Tracked == {flushPromises[k].promise : k \in DOMAIN flushPromises}

\* Promise.all over the tracked promises settles: it rejects as soon as one
\* of them has rejected (onEnd's catch then calls handleError), and fulfils
\* once all have fulfilled (failures are collected and the list is emptied).
OnEndJoined ==
  /\ endPc = "joining"
  /\ IF \E i \in Tracked : promises[i].state = "rejected"
       THEN /\ endPc' = IF HandleErrorThrows THEN "threw" ELSE "done"
            /\ endThrown' =
                 IF HandleErrorThrows
                   THEN FullMessage("Failed to send test results",
                          promises[CHOOSE i \in Tracked :
                             promises[i].state = "rejected"].value.error)
                   ELSE endThrown
            /\ UNCHANGED <<uploadFailures, flushPromises, completeRequests,
                           warnings>>
       ELSE /\ \A i \in Tracked : promises[i].state = "fulfilled"
            /\ uploadFailures' =
                 uploadFailures \o CollectFailures(flushPromises)
            /\ flushPromises' = <<>>
            /\ AfterSendTestResults
            /\ UNCHANGED endThrown
  /\ UNCHANGED <<config, batched, gate, tests, counters, promises, beginPc, runner,
                 createRequests, beginThrown>>

\* completeTestRun fulfilled.
OnEndCompleted ==
  /\ MicrotasksDrained
  /\ endPc = "completing"
  /\ endPc' = "done"
  /\ UNCHANGED <<config, batched, gate, tests, counters, flushPromises,
                 uploadFailures, promises, beginPc, runner, createRequests,
                 completeRequests, warnings, beginThrown, endThrown>>

\* completeTestRun rejected with message e: onEnd's catch calls handleError.
OnEndCompleteFailed(e) ==
  /\ MicrotasksDrained
  /\ endPc = "completing"
  /\ endPc' = IF HandleErrorThrows THEN "threw" ELSE "done"
  /\ endThrown' = IF HandleErrorThrows
                    THEN FullMessage("Failed to send test results", e)
                    ELSE endThrown
  /\ UNCHANGED <<config, batched, gate, tests, counters, flushPromises,
                 uploadFailures, promises, beginPc, runner, createRequests,
                 completeRequests, warnings, beginThrown>>

\* ------------------------------------------------------------ specification
Next ==
  \/ OnBegin
  \/ OnBeginCreated
  \/ \E e \in ErrorMessages : OnBeginCreateFailed(e)
  \/ \E t \in Tests : OnTestBegin(t)
  \/ \E t \in Tests, status \in Statuses, a \in AttachmentLists :
       OnTestEnd(t, status, a)
  \/ \E i \in 1..MaxTests : TaskGateThen(i)
  \/ \E i \in 1..MaxTests, e \in ErrorMessages : TaskSubmitRejected(i, e)
  \/ \E i \in 1..MaxTests, hasResults \in BOOLEAN :
       TaskSubmitResponded(i, hasResults)
  \/ \E i \in 1..MaxTests, a \in 1..MaxAttachments, ok \in BOOLEAN :
       TaskAttachmentSettled(i, a, ok)
  \/ OnEnd
  \/ OnEndJoined
  \/ OnEndCompleted
  \/ \E e \in ErrorMessages : OnEndCompleteFailed(e)

Spec == Init /\ [][Next]_vars

\* The remote service answers the createTestRun request (the api client
\* bounds every request by its timeout and retry budget).
FairSpec ==
  Spec /\ WF_vars(OnBeginCreated \/ \E e \in ErrorMessages :
                                       OnBeginCreateFailed(e))

\* ------------------------------------------------------------ the transport
\* send(request) of the API client, as the design document states it: one
\* logical request is attempted until an attempt succeeds, an attempt ends
\* in an error that is not retried, or maxRetries attempts have been made.

\* What one attempt can end in: an HTTP status, a network error, a timeout.
Outcome(kind, code) == [kind |-> kind, code |-> code]
Outcomes ==
  {Outcome("HttpStatus", c) : c \in {200, 400, 404, 429, 500, 503}}
  \cup {Outcome("NetworkError", 0), Outcome("TimeoutError", 0)}

Ok(o) == o.kind = "HttpStatus" /\ o.code \in 200..299

\* A plausible slip: every error status is retried.
RetryableAnyStatus(client, o) == ~Ok(o)
\* Retried: a network error, a timed-out attempt, a 5xx status, and a 429
\* when the client is configured to retry it.  Any other 4xx is terminal.
Retryable(client, o) ==
  \/ o.kind = "NetworkError"
  \/ o.kind = "TimeoutError"
  \/ o.kind = "HttpStatus" /\ o.code \in 500..599
  \/ o.kind = "HttpStatus" /\ o.code = 429 /\ client.retry429

\* A plausible slip: maxRetries counts the retries after the first attempt.
BudgetLeftAfterFirst(client) == Len(client.attempts) <= client.maxRetries
\* maxRetries bounds the attempts, timed-out ones included.
BudgetLeft(client) == Len(client.attempts) < client.maxRetries

\* The error taxonomy
ErrorKind(o) ==
  IF o.kind = "TimeoutError" THEN "TimeoutError"
  ELSE IF o.kind = "HttpStatus" /\ o.code \in 400..499 /\ o.code # 429
    THEN "PermanentContractError"
    ELSE "TransientNetworkError"
\* The single structured error of a final failure names the last cause.
ErrorOf(o) == [kind |-> ErrorKind(o), cause |-> o]

TransportInit ==
  /\ options = [silent |-> TRUE, createTestRun |-> TRUE,
                testRunId |-> NoValue, uploadScreenshots |-> TRUE,
                uploadVideos |-> TRUE]
  /\ testRunId = NoValue
  /\ tests = {}
  /\ totalTests = 0 /\ passedTests = 0 /\ failedTests = 0 /\ skippedTests = 0
  /\ flushPromises = <<>>
  /\ uploadFailures = <<>>
  /\ testRunReadyResolved = FALSE
  /\ testRunCreationError = NoValue
  /\ promises = <<>>
  /\ beginPc = "idle"
  /\ endPc = "idle"
  /\ runner = [t \in Tests |-> [phase |-> "idle", retry |-> 0]]
  /\ createRequests = 0
  /\ completeRequests = <<>>
  /\ warnings = <<>>
  /\ beginThrown = NoValue
  /\ endThrown = NoValue
  /\ reporter = "gated"
  /\ resultQueue = <<>>
  /\ flushes = <<>>
  /\ apiClient \in {NewClient(m, r) : m \in 1..maxRetries, r \in BOOLEAN}

\* Everything of the reporter that the transport leaves alone
reporterState ==
  <<options, reporter, batched, gate, tests, counters, flushPromises,
    uploadFailures, promises, beginPc, endPc, runner, createRequests,
    completeRequests, warnings, beginThrown, endThrown>>

\* send(request): the first attempt goes out.
TransportSend ==
  /\ apiClient.pc = "idle"
  /\ apiClient' = [apiClient EXCEPT !.pc = "attempting"]
  /\ UNCHANGED reporterState

\* The attempt in flight ends in o.
TransportAnswered(o) ==
  /\ apiClient.pc = "attempting"
  /\ LET answered == [apiClient EXCEPT !.attempts = Append(@, o)]
     IN apiClient' =
          IF Ok(o) THEN [answered EXCEPT !.pc = "succeeded"]
          ELSE IF Retryable(answered, o) /\ BudgetLeft(answered)
            THEN [answered EXCEPT !.pc = "backoff"]
            ELSE [answered EXCEPT !.pc = "failed",
                                  !.errors = Append(@, ErrorOf(o))]
  /\ UNCHANGED reporterState

\* The backoff delay has passed: the next attempt goes out.
TransportBackoffElapsed ==
  /\ apiClient.pc = "backoff"
  /\ apiClient' = [apiClient EXCEPT !.pc = "attempting"]
  /\ UNCHANGED reporterState

TransportNext ==
  \/ TransportSend
  \/ \E o \in Outcomes : TransportAnswered(o)
  \/ TransportBackoffElapsed

TransportSpec == TransportInit /\ [][TransportNext]_vars

\* Every remote request is eventually answered, and a continuation that has
\* become runnable eventually runs.
LiveSpec ==
  /\ Spec
  /\ WF_vars(OnBeginCreated \/ \E e \in ErrorMessages : OnBeginCreateFailed(e))
  /\ \A i \in 1..MaxTests : WF_vars(TaskGateThen(i))
  /\ \A i \in 1..MaxTests :
       WF_vars((\E e \in ErrorMessages : TaskSubmitRejected(i, e))
               \/ (\E hasResults \in BOOLEAN :
                     TaskSubmitResponded(i, hasResults)))
  /\ \A i \in 1..MaxTests, a \in 1..MaxAttachments :
       WF_vars(\E ok \in BOOLEAN : TaskAttachmentSettled(i, a, ok))
  /\ WF_vars(OnEndJoined)
  /\ WF_vars(OnEndCompleted
             \/ \E e \in ErrorMessages : OnEndCompleteFailed(e))

\* ------------------------------------------- the failure report on its own
\* onEnd from the point where sendTestResults has returned, started with
\* every failure list of up to MaxTests records, every creation error and
\* either state of the run id.
ReportReasons ==
  ErrorMessages \cup {"Test run was not created successfully"}
  \cup {"Test run creation failed: " \o e : e \in ErrorMessages}
ReportFailures ==
  [testTitle : {Title(t) : t \in Tests}, error : ReportReasons]
ReportFailureLists ==
  UNION {[1..n -> ReportFailures] : n \in 0..MaxTests}

ReportInit ==
  /\ options \in {o \in OptionSets : o.createTestRun /\ o.uploadScreenshots}
  /\ testRunId \in {NoValue, options.testRunId}
  /\ tests = {getTestId(t) : t \in Tests}
  /\ totalTests = MaxTests /\ passedTests = MaxTests
  /\ failedTests = 0 /\ skippedTests = 0
  /\ flushPromises = <<>>
  /\ uploadFailures \in ReportFailureLists
  /\ testRunReadyResolved = TRUE
  /\ testRunCreationError \in {NoValue} \cup ErrorMessages
  /\ promises = <<>>
  /\ beginPc = "done"
  /\ endPc = "joining"
  /\ runner = [t \in Tests |-> [phase |-> "finished", retry |-> Retries(t)]]
  /\ createRequests = 0
  /\ completeRequests = <<>>
  /\ warnings = <<>>
  /\ beginThrown = NoValue
  /\ endThrown = NoValue
  /\ reporter = "gated"
  /\ resultQueue = <<>>
  /\ flushes = <<>>
  /\ apiClient = NewClient(maxRetries, TRUE)

\* The part of onEnd after the await of sendTestResults
ReportAfterSendTestResults ==
  /\ endPc = "joining"
  /\ UNCHANGED uploadFailures
  /\ AfterSendTestResults
  /\ UNCHANGED <<config, batched, gate, tests, counters, flushPromises,
                 promises, beginPc, runner, createRequests, beginThrown,
                 endThrown>>

ReportNext ==
  \/ ReportAfterSendTestResults
  \/ OnEndCompleted
  \/ \E e \in ErrorMessages : OnEndCompleteFailed(e)

ReportSpec == ReportInit /\ [][ReportNext]_vars

\* ===================================================== the batched reporter
\* src/unnamed/part_000: the reporter that queues results and submits them
\* in batches.  It has no readiness promise: onTestEnd queues a result only
\* if state.testRunId is already set.
MaxBatchTests == 3       \* test cases of the project the batched reporter sees
MaxBatchRun == 2         \* test cases of one run, the three-record runs apart
MaxBatchAttachments == 1 \* longest attachment list of one queued result

BatchTests == 1..MaxBatchTests
BatchSizes == {1, 2}
\* The results Playwright hands to onTestEnd, as <<status, attachments>>,
\* with screenshot: 'only-on-failure': a failed attempt carries a screenshot.
BatchResults ==
  {<<"passed", <<>> >>,
   <<"failed", [k \in 1..MaxBatchAttachments |-> AttachmentType(k)]>>}
\* Message of a rejected submitTestResults request
BatchErrorMessages == {"ECONNRESET"}

\* Fields of the gated reporter that the batched one does not have
gatedOnly == <<uploadFailures, testRunReadyResolved, testRunCreationError,
               promises, warnings>>

BatchOptionSets ==
  [silent : BOOLEAN, createTestRun : BOOLEAN,
   testRunId : {NoValue, ExistingRunId},
   uploadScreenshots : BOOLEAN, uploadVideos : {TRUE},
   batchSize : BatchSizes]

\* The option objects of the runs that report all MaxBatchTests test cases:
\* batches of two for a run whose id is configured.
ThreeRecordOptionSets ==
  {o \in BatchOptionSets :
     /\ o.batchSize = 2 /\ o.testRunId # NoValue
     /\ ~o.createTestRun /\ ~o.uploadScreenshots}

\* The runs: the test cases Playwright runs with the reporter constructed
\* from an option object.
BatchRuns ==
  {run \in (SUBSET BatchTests) \X BatchOptionSets :
     \/ Cardinality(run[1]) = MaxBatchRun
     \/ run[1] = BatchTests /\ run[2] \in ThreeRecordOptionSets}

BatchInit ==
  /\ \E run \in BatchRuns :
       /\ options = run[2]
       /\ runner = [t \in run[1] |-> [phase |-> "idle", retry |-> 0]]
  /\ testRunId = NoValue
  /\ tests = {}
  /\ totalTests = 0 /\ passedTests = 0 /\ failedTests = 0 /\ skippedTests = 0
  /\ flushPromises = <<>>
  /\ uploadFailures = <<>>
  /\ testRunReadyResolved = FALSE
  /\ testRunCreationError = NoValue
  /\ promises = <<>>
  /\ beginPc = "idle"
  /\ endPc = "idle"
  /\ createRequests = 0
  /\ completeRequests = <<>>
  /\ warnings = <<>>
  /\ beginThrown = NoValue
  /\ endThrown = NoValue
  /\ reporter = "batched"
  /\ resultQueue = <<>>
  /\ flushes = <<>>
  /\ apiClient = NewClient(maxRetries, TRUE)

\* onBegin up to its first suspension: the createTestRun request is sent, or
\* the configured id (possibly undefined) is stored.
BatchOnBegin ==
  /\ beginPc = "idle"
  /\ endPc = "idle"
  /\ IF options.createTestRun /\ options.testRunId = NoValue
       THEN /\ createRequests' = createRequests + 1
            /\ beginPc' = "creating"
            /\ UNCHANGED testRunId
       ELSE /\ testRunId' = options.testRunId
            /\ beginPc' = "done"
            /\ UNCHANGED createRequests
  /\ UNCHANGED <<config, batched, gatedOnly, tests, counters, flushPromises,
                 endPc, runner, completeRequests, beginThrown, endThrown>>

\* createTestRun fulfilled.
BatchOnBeginCreated ==
  /\ beginPc = "creating"
  /\ testRunId' = CreatedRunId
  /\ beginPc' = "done"
  /\ UNCHANGED <<config, batched, gatedOnly, tests, counters, flushPromises,
                 endPc, runner, createRequests, completeRequests,
                 beginThrown, endThrown>>

\* createTestRun rejected with message e: the catch calls handleError.
BatchOnBeginCreateFailed(e) ==
  /\ beginPc = "creating"
  /\ beginPc' = IF HandleErrorThrows THEN "threw" ELSE "done"
  /\ beginThrown' = IF HandleErrorThrows
                      THEN FullMessage("Failed to create test run", e)
                      ELSE beginThrown
  /\ UNCHANGED <<config, batched, gatedOnly, testRunId, tests, counters,
                 flushPromises, endPc, runner, createRequests,
                 completeRequests, endThrown>>

\* onTestBegin stores the test, whatever else is running.
BatchOnTestBegin(t) ==
  /\ t \in DOMAIN runner
  /\ beginPc # "idle"
  /\ endPc = "idle"
  /\ runner[t].phase = "idle"
  /\ tests' = tests \cup {getTestId(t)}
  /\ runner' = [runner EXCEPT ![t].phase = "running"]
  /\ UNCHANGED <<config, batched, gatedOnly, testRunId, counters,
                 flushPromises, beginPc, endPc, createRequests,
                 completeRequests, beginThrown, endThrown>>

\* One entry of resultQueue: the converted result and its kept attachments
QueueItem(t, attachments) ==
  [test |-> t, title |-> Title(t), attachments |-> attachments]

\* The caller of flushResults that is no test: sendTestResults, at the drain
Drain == 0

\* A flushPromise chain right after submitTestResults was called with a copy
\* of the queue; trigger is the caller of flushResults (a test or Drain).
\* failedAt is history: how many flushes had been started when the catch
\* callback of this one ran.
NewFlush(batch, trigger) ==
  [batch |-> batch, testRunId |-> testRunId, trigger |-> trigger,
   pc |-> "submitting", state |-> "pending", error |-> NoValue,
   failedAt |-> 0,
   processed |-> {}, attachmentsPending |-> {}, attachmentsSent |-> {},
   attachmentsFailed |-> FALSE]

\* flushResults, called with the queue as it is at the call: nothing without
\* a queue entry or a run id; otherwise the whole queue is submitted (the
\* queue itself is left as it is) and the chain is tracked.
FlushResults(queue, trigger) ==
  IF queue = <<>> \/ testRunId = NoValue
    THEN UNCHANGED <<flushes, flushPromises>>
    ELSE /\ flushes' = Append(flushes, NewFlush(queue, trigger))
         /\ flushPromises' = Append(flushPromises, Len(flushes) + 1)

\* A plausible slip: flushResults awaits the flushPromise, which keeps the
\* calling onTestEnd suspended until the batch request is answered.
BatchOnTestEndAwaitsFlush(t, status, attachmentBuffers) ==
  /\ t \in DOMAIN runner
  /\ endPc = "idle"
  /\ runner[t].phase = "running"
  /\ IF getTestId(t) \notin tests
       THEN UNCHANGED <<counters, batched, flushPromises>>
       ELSE IF runner[t].retry = Retries(t)
         THEN /\ CountStatus(status)
              /\ IF testRunId # NoValue
                   THEN /\ resultQueue' = Append(resultQueue,
                             QueueItem(t,
                               filteredAttachments(attachmentBuffers)))
                        /\ IF Len(resultQueue') >= options.batchSize
                             THEN FlushResults(resultQueue', t)
                             ELSE UNCHANGED <<flushes, flushPromises>>
                   ELSE UNCHANGED <<batched, flushPromises>>
         ELSE UNCHANGED <<counters, batched, flushPromises>>
  /\ runner' = [runner EXCEPT ![t] =
                  IF Len(flushes') > Len(flushes)
                    THEN @
                    ELSE IF WillRetry(t, status)
                      THEN [phase |-> "idle", retry |-> @.retry + 1]
                      ELSE [phase |-> "finished", retry |-> @.retry]]
  /\ UNCHANGED <<config, gatedOnly, testRunId, tests, beginPc, endPc,
                 createRequests, completeRequests, beginThrown, endThrown>>

\* onTestEnd: the final attempt is counted; it is queued only if a run id
\* exists, and the call that fills the queue up to batchSize starts a flush.
\* flushResults returns once the request is handed to the client, so the
\* hook ends in the same synchronous stretch.
BatchOnTestEnd(t, status, attachmentBuffers) ==
  /\ t \in DOMAIN runner
  /\ endPc = "idle"
  /\ runner[t].phase = "running"
  /\ runner' = [runner EXCEPT ![t] =
                  IF WillRetry(t, status)
                    THEN [phase |-> "idle", retry |-> @.retry + 1]
                    ELSE [phase |-> "finished", retry |-> @.retry]]
  /\ IF getTestId(t) \notin tests
       THEN UNCHANGED <<counters, batched, flushPromises>>
       ELSE IF runner[t].retry = Retries(t)
         THEN /\ CountStatus(status)
              /\ IF testRunId # NoValue
                   THEN /\ resultQueue' = Append(resultQueue,
                             QueueItem(t,
                               filteredAttachments(attachmentBuffers)))
                        /\ IF Len(resultQueue') >= options.batchSize
                             THEN FlushResults(resultQueue', t)
                             ELSE UNCHANGED <<flushes, flushPromises>>
                   ELSE UNCHANGED <<batched, flushPromises>>
         ELSE UNCHANGED <<counters, batched, flushPromises>>
  /\ UNCHANGED <<config, gatedOnly, testRunId, tests, beginPc, endPc,
                 createRequests, completeRequests, beginThrown, endThrown>>

\* The titles of response.results, for a response that reports the batch
\* positions in processed as processed
processedTitles(batch, processed) == {batch[p].title : p \in processed}

\* response.results of a fulfilled submitTestResults, as the list of the
\* batch positions it reports, in the order it lists them: the entry for
\* position p has the title of batch[p] and the result id p.
BatchResponses(batch) ==
  {results \in UNION {[1..m -> DOMAIN batch] : m \in 0..Len(batch)} :
     \A i, j \in DOMAIN results : results[i] = results[j] => i = j}
\* The batch positions a response reports
processedOf(results) == {results[i] : i \in DOMAIN results}

\* uploadBatchAttachments: titleToResultId is filled by going through
\* response.results in order, so per title it keeps the id of the last
\* listed entry with that title; every batch item whose title has an id
\* sends all its attachments to it.
titleToResultId(batch, results, title) ==
  LET same == {i \in DOMAIN results : batch[results[i]].title = title}
  IN results[CHOOSE i \in same : \A j \in same : j <= i]
allAttachments(batch, results) ==
  {[item |-> p, attachment |-> a,
    testResultId |-> titleToResultId(batch, results, batch[p].title)] :
     <<p, a>> \in
       {pa \in (DOMAIN batch) \X (1..MaxBatchAttachments) :
          /\ batch[pa[1]].title
               \in processedTitles(batch, processedOf(results))
          /\ pa[2] <= Len(batch[pa[1]].attachments)}}

\* The queue after the then-callback of a flush whose batch was batch and
\* whose response reported the positions in processed: items whose title is
\* among the processed titles are filtered out of the current queue.
Prune(queue, batch, processed) ==
  IF processed # {}
    THEN SelectSeq(queue,
           LAMBDA item :
             item.title \notin processedTitles(batch, processed))
    ELSE queue

\* submitTestResults of flush k fulfilled with response.results = results:
\* the queue loses every entry with a processed title, then the attachments
\* are uploaded in parallel.
FlushResponded(k, results) ==
  /\ k \in DOMAIN flushes
  /\ flushes[k].pc = "submitting"
  /\ results \in BatchResponses(flushes[k].batch)
  /\ LET batch == flushes[k].batch
         processed == processedOf(results)
         uploads == allAttachments(batch, results)
     IN /\ resultQueue' = Prune(resultQueue, batch, processed)
        /\ flushes' = [flushes EXCEPT ![k] =
             IF uploads = {}
               THEN [@ EXCEPT !.processed = processed, !.pc = "settled",
                              !.state = "fulfilled"]
               ELSE [@ EXCEPT !.processed = processed, !.pc = "attaching",
                              !.attachmentsPending = uploads]]
  /\ UNCHANGED <<config, gatedOnly, testRunId, tests, counters, flushPromises,
                 beginPc, endPc, runner, createRequests, completeRequests,
                 beginThrown, endThrown>>

\* A plausible slip: the catch of a failed flush sends the queue again at
\* once.
FlushRejectedRetries(k, e) ==
  /\ k \in DOMAIN flushes
  /\ flushes[k].pc = "submitting"
  /\ flushes' = Append([flushes EXCEPT ![k] =
       [@ EXCEPT !.pc = "settled",
                 !.state = IF HandleErrorThrows THEN "rejected"
                                                ELSE "fulfilled",
                 !.error = FullMessage("Failed to send batch", e),
                 !.failedAt = Len(flushes)]],
       NewFlush(resultQueue, Drain))
  /\ flushPromises' = Append(flushPromises, Len(flushes) + 1)
  /\ UNCHANGED <<config, gatedOnly, testRunId, tests, counters,
                 resultQueue, beginPc, endPc, runner, createRequests,
                 completeRequests, beginThrown, endThrown>>

\* submitTestResults of flush k rejected with message e: the catch calls
\* handleError, whose throw (when not silent) rejects the flushPromise.
FlushRejected(k, e) ==
  /\ k \in DOMAIN flushes
  /\ flushes[k].pc = "submitting"
  /\ flushes' = [flushes EXCEPT ![k] =
       [@ EXCEPT !.pc = "settled",
                 !.state = IF HandleErrorThrows THEN "rejected"
                                                ELSE "fulfilled",
                 !.error = FullMessage("Failed to send batch", e),
                 !.failedAt = Len(flushes)]]
  /\ UNCHANGED <<config, gatedOnly, testRunId, tests, counters, flushPromises,
                 resultQueue, beginPc, endPc, runner, createRequests,
                 completeRequests, beginThrown, endThrown>>

\* One uploadAttachment request u of flush k is answered: a failure is
\* caught and logged, nothing else.  Promise.allSettled over the uploads
\* settles with the last answer, which fulfils the flushPromise.
BatchAttachmentSettled(k, u, ok) ==
  /\ k \in DOMAIN flushes
  /\ flushes[k].pc = "attaching"
  /\ u \in flushes[k].attachmentsPending
  /\ flushes' = [flushes EXCEPT ![k] =
       LET answered ==
             [@ EXCEPT !.attachmentsPending = @ \ {u},
                       !.attachmentsSent = @ \cup {u},
                       !.attachmentsFailed = @ \/ ~ok]
       IN IF answered.attachmentsPending = {}
            THEN [answered EXCEPT !.pc = "settled", !.state = "fulfilled"]
            ELSE answered]
  /\ UNCHANGED <<config, gatedOnly, testRunId, tests, counters, flushPromises,
                 resultQueue, beginPc, endPc, runner, createRequests,
                 completeRequests, beginThrown, endThrown>>

\* onEnd's completeTestRun request: the summary is the raw counters.
BatchComplete ==
  /\ completeRequests' = Append(completeRequests,
       [testRunId |-> testRunId,
        summary |-> [total |-> totalTests, passed |-> passedTests,
                     failed |-> failedTests, skipped |-> skippedTests]])
  /\ endPc' = "completing"

\* onEnd is called.  sendTestResults returns at once without a run id;
\* otherwise it flushes what is queued and suspends on Promise.allSettled
\* if any flushPromise is tracked.
BatchOnEnd ==
  /\ endPc = "idle"
  /\ \A t \in DOMAIN runner : runner[t].phase # "running"
  /\ IF testRunId = NoValue
       THEN /\ endPc' = "done"
            /\ UNCHANGED <<flushes, flushPromises, completeRequests>>
       ELSE /\ FlushResults(resultQueue, Drain)
            /\ IF flushPromises' # <<>>
                 THEN endPc' = "joining" /\ UNCHANGED completeRequests
                 ELSE BatchComplete
  /\ UNCHANGED <<config, gatedOnly, testRunId, tests, counters, resultQueue,
                 beginPc, runner, createRequests, beginThrown, endThrown>>

\* Promise.allSettled over the tracked flushPromises settles once each has
\* settled, whichever way; the list is emptied and the run is completed.
BatchOnEndJoined ==
  /\ endPc = "joining"
  /\ \A j \in DOMAIN flushPromises : flushes[flushPromises[j]].pc = "settled"
  /\ flushPromises' = <<>>
  /\ BatchComplete
  /\ UNCHANGED <<config, gatedOnly, batched, testRunId, tests, counters,
                 beginPc, runner, createRequests, beginThrown, endThrown>>

\* completeTestRun fulfilled.
BatchOnEndCompleted ==
  /\ endPc = "completing"
  /\ endPc' = "done"
  /\ UNCHANGED <<config, gatedOnly, batched, testRunId, tests, counters,
                 flushPromises, beginPc, runner, createRequests,
                 completeRequests, beginThrown, endThrown>>

\* completeTestRun rejected with message e: onEnd's catch calls handleError.
BatchOnEndCompleteFailed(e) ==
  /\ endPc = "completing"
  /\ endPc' = IF HandleErrorThrows THEN "threw" ELSE "done"
  /\ endThrown' = IF HandleErrorThrows
                    THEN FullMessage("Failed to send test results", e)
                    ELSE endThrown
  /\ UNCHANGED <<config, gatedOnly, batched, testRunId, tests, counters,
                 flushPromises, beginPc, runner, createRequests,
                 completeRequests, beginThrown>>

BatchNext ==
  \/ BatchOnBegin
  \/ BatchOnBeginCreated
  \/ \E e \in ErrorMessages : BatchOnBeginCreateFailed(e)
  \/ \E t \in BatchTests : BatchOnTestBegin(t)
  \/ \E t \in BatchTests, r \in BatchResults : BatchOnTestEnd(t, r[1], r[2])
  \/ \E k \in 1..(MaxBatchTests + 1) :
       \E results \in (IF k \in DOMAIN flushes
                         THEN BatchResponses(flushes[k].batch) ELSE {}) :
         FlushResponded(k, results)
  \/ \E k \in 1..(MaxBatchTests + 1), e \in BatchErrorMessages :
       FlushRejected(k, e)
  \/ \E k \in 1..(MaxBatchTests + 1), ok \in BOOLEAN :
       \E u \in (IF k \in DOMAIN flushes
                   THEN flushes[k].attachmentsPending ELSE {}) :
         BatchAttachmentSettled(k, u, ok)
  \/ BatchOnEnd
  \/ BatchOnEndJoined
  \/ BatchOnEndCompleted
  \/ \E e \in ErrorMessages : BatchOnEndCompleteFailed(e)

BatchSpec == BatchInit /\ [][BatchNext]_vars

\* Either reporter class, chosen when the reporter is constructed
AllInit == Init \/ BatchInit
AllNext ==
  \/ reporter = "gated" /\ Next
  \/ reporter = "batched" /\ BatchNext
AllSpec == AllInit /\ [][AllNext]_vars

\* --------------------------------------- the streaming reporter, no gate
\* The first reporter class of index.ts: onTestEnd sends a result at once
\* if a run id exists and drops it otherwise; there is no readiness promise.
UngatedInit ==
  /\ options \in OptionSets
  /\ testRunId = NoValue
  /\ tests = {}
  /\ totalTests = 0 /\ passedTests = 0 /\ failedTests = 0 /\ skippedTests = 0
  /\ flushPromises = <<>>
  /\ uploadFailures = <<>>
  /\ testRunReadyResolved = FALSE
  /\ testRunCreationError = NoValue
  /\ promises = <<>>
  /\ beginPc = "idle"
  /\ endPc = "idle"
  /\ runner = [t \in Tests |-> [phase |-> "idle", retry |-> 0]]
  /\ createRequests = 0
  /\ completeRequests = <<>>
  /\ warnings = <<>>
  /\ beginThrown = NoValue
  /\ endThrown = NoValue
  /\ reporter = "ungated"
  /\ resultQueue = <<>>
  /\ flushes = <<>>
  /\ apiClient = NewClient(maxRetries, TRUE)

\* What the ungated reporter never writes
ungatedFixed ==
  <<config, batched, testRunReadyResolved, testRunCreationError>>

\* onBegin up to its first suspension
UngatedOnBegin ==
  /\ beginPc = "idle"
  /\ endPc = "idle"
  /\ IF options.createTestRun /\ options.testRunId = NoValue
       THEN /\ createRequests' = createRequests + 1
            /\ beginPc' = "creating"
            /\ UNCHANGED testRunId
       ELSE /\ testRunId' = options.testRunId
            /\ beginPc' = "done"
            /\ UNCHANGED createRequests
  /\ UNCHANGED <<ungatedFixed, tests, counters, flushPromises, uploadFailures,
                 promises, endPc, runner, completeRequests, warnings,
                 beginThrown, endThrown>>

\* createTestRun fulfilled: the id is stored.
UngatedOnBeginCreated ==
  /\ beginPc = "creating"
  /\ testRunId' = CreatedRunId
  /\ beginPc' = "done"
  /\ UNCHANGED <<ungatedFixed, tests, counters, flushPromises, uploadFailures,
                 promises, endPc, runner, createRequests, completeRequests,
                 warnings, beginThrown, endThrown>>

\* createTestRun rejected with message e: handleError logs or throws.
UngatedOnBeginCreateFailed(e) ==
  /\ beginPc = "creating"
  /\ beginPc' = IF HandleErrorThrows THEN "threw" ELSE "done"
  /\ beginThrown' = IF HandleErrorThrows
                      THEN FullMessage("Failed to create test run", e)
                      ELSE beginThrown
  /\ UNCHANGED <<ungatedFixed, testRunId, tests, counters, flushPromises,
                 uploadFailures, promises, endPc, runner, createRequests,
                 completeRequests, warnings, endThrown>>

UngatedOnTestBegin(t) ==
  /\ beginPc # "idle"
  /\ endPc = "idle"
  /\ runner[t].phase = "idle"
  /\ tests' = tests \cup {getTestId(t)}
  /\ runner' = [runner EXCEPT ![t].phase = "running"]
  /\ UNCHANGED <<ungatedFixed, testRunId, counters, flushPromises,
                 uploadFailures, promises, beginPc, endPc, createRequests,
                 completeRequests, warnings, beginThrown, endThrown>>

\* failedStatus of the catch callback in onTestEnd
FailedStatus(status) ==
  IF status = "passed" THEN "passed"
  ELSE IF status \in {"failed", "timedOut"} THEN "failed"
  ELSE "skipped"

\* sendTestResult called with a run id present: the submitTestResults
\* request goes out in the same synchronous stretch.
UngatedSendPromise(t, status, attachments) ==
  [test |-> t, title |-> Title(t), failedStatus |-> FailedStatus(status),
   attachments |-> attachments, pc |-> "submitting", state |-> "pending",
   value |-> Success, submit |-> "inflight", submitRunId |-> testRunId,
   testResultId |-> 0, attachmentsSent |-> {}, attachmentsPending |-> {},
   attachmentsFailed |-> {}]

\* onTestEnd: the final attempt is counted; with a run id the result is
\* sent at once and its promise tracked, without one nothing is sent.
UngatedOnTestEnd(t, status, attachmentBuffers) ==
  /\ endPc = "idle"
  /\ runner[t].phase = "running"
  /\ runner' = [runner EXCEPT ![t] =
                  IF WillRetry(t, status)
                    THEN [phase |-> "idle", retry |-> @.retry + 1]
                    ELSE [phase |-> "finished", retry |-> @.retry]]
  /\ IF getTestId(t) \notin tests
       THEN UNCHANGED <<counters, flushPromises, promises>>
       ELSE IF runner[t].retry = Retries(t)
         THEN /\ CountStatus(status)
              /\ IF testRunId # NoValue
                   THEN /\ promises' = Append(promises,
                             UngatedSendPromise(t, status,
                               filteredAttachments(attachmentBuffers)))
                        /\ flushPromises' =
                             Append(flushPromises, Len(promises) + 1)
                   ELSE UNCHANGED <<flushPromises, promises>>
         ELSE UNCHANGED <<counters, flushPromises, promises>>
  /\ UNCHANGED <<ungatedFixed, testRunId, tests, uploadFailures, beginPc,
                 endPc, createRequests, completeRequests, warnings,
                 beginThrown, endThrown>>

\* submitTestResults of task i rejected with message e: the catch callback
\* records the failure and the tracked promise fulfils.
UngatedSubmitRejected(i, e) ==
  /\ i \in DOMAIN promises
  /\ promises[i].pc = "submitting"
  /\ promises' = [promises EXCEPT ![i] =
       Settle([@ EXCEPT !.submit = "rejected"], ChainCaught(e))]
  /\ uploadFailures' = Append(uploadFailures,
       [testTitle |-> promises[i].title, error |-> e,
        status |-> promises[i].failedStatus])
  /\ UNCHANGED <<ungatedFixed, testRunId, tests, counters, flushPromises,
                 beginPc, endPc, runner, createRequests, completeRequests,
                 warnings, beginThrown, endThrown>>

\* submitTestResults of task i fulfilled: attachments are uploaded if the
\* response lists a result, otherwise sendTestResult returns.
UngatedSubmitResponded(i, hasResults) ==
  /\ i \in DOMAIN promises
  /\ promises[i].pc = "submitting"
  /\ promises' = [promises EXCEPT ![i] = AfterSubmit(@, hasResults, i)]
  /\ UNCHANGED <<ungatedFixed, testRunId, tests, counters, flushPromises,
                 uploadFailures, beginPc, endPc, runner, createRequests,
                 completeRequests, warnings, beginThrown, endThrown>>

\* One uploadAttachment of task i settles; a failure is caught and logged.
UngatedAttachmentSettled(i, a, ok) ==
  /\ i \in DOMAIN promises
  /\ promises[i].pc = "attaching"
  /\ a \in promises[i].attachmentsPending
  /\ promises' = [promises EXCEPT ![i] = AttachmentSettled(@, a, ok)]
  /\ UNCHANGED <<ungatedFixed, testRunId, tests, counters, flushPromises,
                 uploadFailures, beginPc, endPc, runner, createRequests,
                 completeRequests, warnings, beginThrown, endThrown>>

\* The console.error report of onEnd
UngatedFailureReport(failures) ==
  IF Len(failures) > 0
    THEN <<WarnLine("listHeader", NoValue, NoValue, Len(failures))>>
         \o ItemLines(failures)
         \o <<WarnLine("listFooter", NoValue, NoValue, totalTests)>>
    ELSE <<>>

\* failuresByStatus[status]
failuresByStatus(failures, status) ==
  Len(SelectSeq(failures, LAMBDA f : f.status = status))

\* actualUploaded of onEnd
actualUploaded(failures) ==
  [total |-> totalTests - Len(failures),
   passed |-> passedTests - failuresByStatus(failures, "passed"),
   failed |-> failedTests - failuresByStatus(failures, "failed"),
   skipped |-> skippedTests - failuresByStatus(failures, "skipped")]

\* onEnd after sendTestResults has returned, up to its next await
UngatedAfterSendTestResults ==
  /\ warnings' = warnings \o UngatedFailureReport(uploadFailures)
  /\ IF testRunId # NoValue
       THEN /\ completeRequests' = Append(completeRequests,
                 [testRunId |-> testRunId,
                  summary |-> actualUploaded(uploadFailures)])
            /\ endPc' = "completing"
       ELSE /\ endPc' = "done"
            /\ UNCHANGED completeRequests

\* onEnd is called: sendTestResults returns at once without a run id or
\* with nothing tracked, otherwise it suspends on Promise.allSettled.
UngatedOnEnd ==
  /\ endPc = "idle"
  /\ \A t \in Tests : runner[t].phase # "running"
  /\ IF testRunId = NoValue \/ Len(flushPromises) = 0
       THEN UngatedAfterSendTestResults
       ELSE /\ endPc' = "joining"
            /\ UNCHANGED <<completeRequests, warnings>>
  /\ UNCHANGED <<ungatedFixed, testRunId, tests, counters, flushPromises,
                 uploadFailures, promises, beginPc, runner, createRequests,
                 beginThrown, endThrown>>

\* Promise.allSettled over the tracked promises settles; the list is
\* emptied and onEnd goes on.
UngatedOnEndJoined ==
  /\ endPc = "joining"
  /\ \A k \in DOMAIN flushPromises : promises[flushPromises[k]].pc = "settled"
  /\ flushPromises' = <<>>
  /\ UngatedAfterSendTestResults
  /\ UNCHANGED <<ungatedFixed, testRunId, tests, counters, uploadFailures,
                 promises, beginPc, runner, createRequests, beginThrown,
                 endThrown>>

\* completeTestRun fulfilled.
UngatedOnEndCompleted ==
  /\ endPc = "completing"
  /\ endPc' = "done"
  /\ UNCHANGED <<ungatedFixed, testRunId, tests, counters, flushPromises,
                 uploadFailures, promises, beginPc, runner, createRequests,
                 completeRequests, warnings, beginThrown, endThrown>>

\* completeTestRun rejected with message e: onEnd's catch calls handleError.
UngatedOnEndCompleteFailed(e) ==
  /\ endPc = "completing"
  /\ endPc' = IF HandleErrorThrows THEN "threw" ELSE "done"
  /\ endThrown' = IF HandleErrorThrows
                    THEN FullMessage("Failed to send test results", e)
                    ELSE endThrown
  /\ UNCHANGED <<ungatedFixed, testRunId, tests, counters, flushPromises,
                 uploadFailures, promises, beginPc, runner, createRequests,
                 completeRequests, warnings, beginThrown>>

UngatedNext ==
  \/ UngatedOnBegin
  \/ UngatedOnBeginCreated
  \/ \E e \in ErrorMessages : UngatedOnBeginCreateFailed(e)
  \/ \E t \in Tests : UngatedOnTestBegin(t)
  \/ \E t \in Tests, status \in Statuses, a \in AttachmentLists :
       UngatedOnTestEnd(t, status, a)
  \/ \E i \in 1..MaxTests, e \in ErrorMessages : UngatedSubmitRejected(i, e)
  \/ \E i \in 1..MaxTests, hasResults \in BOOLEAN :
       UngatedSubmitResponded(i, hasResults)
  \/ \E i \in 1..MaxTests, a \in 1..MaxAttachments, ok \in BOOLEAN :
       UngatedAttachmentSettled(i, a, ok)
  \/ UngatedOnEnd
  \/ UngatedOnEndJoined
  \/ UngatedOnEndCompleted
  \/ \E e \in ErrorMessages : UngatedOnEndCompleteFailed(e)

UngatedSpec == UngatedInit /\ [][UngatedNext]_vars

\* ------------------------------------------------------------------- claims
Settled == {i \in DOMAIN promises : promises[i].pc = "settled"}
Failed == {i \in Settled : ~promises[i].value.success}
Confirmed == {i \in DOMAIN promises : promises[i].submit = "confirmed"}
OnEndPastDrain == endPc \in {"completing", "done", "threw"}
CreationFailedMessage == "Test run creation failed: " \o testRunCreationError

\* C1: once onEnd is past its drain step, every result that onTestEnd
\* tracked has a settled outcome that the drain looked at exactly once: the
\* tracked list is empty and there is one failure record per failed outcome.
C1_EveryOutcomeObserved ==
  OnEndPastDrain =>
    /\ flushPromises = <<>>
    /\ Settled = DOMAIN promises
    /\ Len(uploadFailures) = Cardinality(Failed)

\* C2: every completeTestRun request carries summary.total equal to
\* totalTests minus the number of collected upload failure records.
C2_UploadedTotal ==
  \A k \in DOMAIN completeRequests :
    completeRequests[k].summary.total = totalTests - Len(uploadFailures)

C2_Witness ==
  /\ completeRequests # <<>>
  /\ Len(uploadFailures) > 0
  /\ completeRequests[1].summary.total < totalTests

\* C3: in silent mode, when creation has failed with message E and N >= 1
\* results were counted after that failure, a finished onEnd has collected N
\* failure records whose reason wraps E, printed the single creation-failure
\* warning naming E and no per-item line, and the uploaded total is 0.
C3_CreationFailureReported ==
  (/\ options.silent
   /\ testRunCreationError # NoValue
   /\ totalTests >= 1
   /\ \A i \in DOMAIN promises : ~promises[i].pendingAtCall
   /\ endPc = "done") =>
    /\ Len(uploadFailures) = totalTests
    /\ \A k \in DOMAIN uploadFailures :
         uploadFailures[k].error = CreationFailedMessage
    /\ warnings = <<WarnLine("creationFailed", NoValue, testRunCreationError,
                             totalTests)>>
    /\ calculateUploadedCounts(uploadFailures).total = 0

\* C4: a submitTestResults request exists only once the readiness promise
\* has resolved and onBegin's creation attempt is over, and it carries the
\* reporter's run id: the created id when a creation request was made.
C4_NoSubmitBeforeGate ==
  \A i \in DOMAIN promises :
    promises[i].submit # "none" =>
      /\ testRunReadyResolved
      /\ beginPc \in {"done", "threw"}
      /\ promises[i].submitRunId = testRunId
      /\ createRequests > 0 => promises[i].submitRunId = CreatedRunId

C4_Witness ==
  \E i \in DOMAIN promises :
    /\ promises[i].pendingAtCall
    /\ promises[i].submit # "none"
    /\ promises[i].submitRunId = CreatedRunId

\* C5: every onBegin call leads to the readiness promise being resolved,
\* whichever way the creation attempt ends.
C5_GateAlwaysResolves == (beginPc # "idle") ~> testRunReadyResolved

C5_Witness ==
  /\ beginPc = "threw"
  /\ testRunReadyResolved
  /\ \E i \in DOMAIN promises : promises[i].pc = "settled"

\* C6: the readiness promise resolves once and for all: after resolution
\* the run id and the creation error never change, and every chain that has
\* passed the gate has read the values the reporter still holds.
C6_GateImmutable ==
  /\ [][testRunReadyResolved =>
          /\ testRunReadyResolved'
          /\ testRunId' = testRunId
          /\ testRunCreationError' = testRunCreationError]_vars
  /\ [](\A i \in DOMAIN promises :
          promises[i].pc # "waiting" =>
            promises[i].observed =
              [testRunId |-> testRunId, error |-> testRunCreationError])

C6_Witness ==
  \E i, j \in DOMAIN promises :
    /\ promises[i].pendingAtCall /\ ~promises[j].pendingAtCall
    /\ promises[i].pc # "waiting" /\ promises[j].pc # "waiting"
    /\ promises[i].observed = promises[j].observed

\* C7: no sendPromise chain ever rejects: an error thrown at the gate or a
\* rejected submission settles the chain as {success: false, error}, and
\* onEnd never fails on joining the chains.
C7_TaskNeverRejects ==
  /\ \A i \in DOMAIN promises :
       /\ promises[i].state # "rejected"
       /\ (promises[i].pc = "settled" /\
           (promises[i].submit = "rejected" \/
            promises[i].observed.testRunId = NoValue)) =>
            /\ promises[i].state = "fulfilled"
            /\ ~promises[i].value.success
            /\ promises[i].value.error # NoValue
  /\ endPc = "joining" => endThrown = NoValue

C7_Witness ==
  /\ \E i \in DOMAIN promises :
       /\ promises[i].submit = "rejected"
       /\ promises[i].state = "fulfilled"
       /\ promises[i].value = Failure("ECONNRESET")
  /\ uploadFailures # <<>>
  /\ endPc = "completing"

\* C8: a record whose submission was confirmed ends as a success whatever
\* happens to its attachment uploads; failure records exist only for failed
\* outcomes, and the uploaded total counts every confirmed record.
C8_AttachmentFailureKeepsSuccess ==
  /\ \A i \in Settled :
       promises[i].submit = "confirmed" => promises[i].value.success
  /\ Len(uploadFailures) + Cardinality(Confirmed) <= Len(promises)
  /\ \A k \in DOMAIN completeRequests :
       completeRequests[k].summary.total >= Cardinality(Confirmed)

C8_Witness ==
  /\ \E i \in Settled :
       /\ promises[i].submit = "confirmed"
       /\ promises[i].attachmentsFailed # {}
       /\ promises[i].attachmentsFailed # promises[i].attachmentsSent
       /\ promises[i].value.success
  /\ completeRequests # <<>>
  /\ completeRequests[1].summary.total = totalTests

\* C9: attachment uploads of a record have been issued only if its
\* submission has completed and confirmed the record with a result id, and
\* they go to that id.
C9_SubmitBeforeAttachments ==
  \A i \in DOMAIN promises :
    /\ promises[i].attachmentsSent # {} =>
         /\ promises[i].submit = "confirmed"
         /\ promises[i].testResultId = i
    /\ promises[i].submit \in {"none", "inflight", "rejected", "unconfirmed"}
         => promises[i].attachmentsSent = {}

C9_Witness ==
  /\ \E i \in DOMAIN promises :
       promises[i].attachmentsSent # {} /\ promises[i].submit = "confirmed"
  /\ \E i \in Settled :
       /\ promises[i].submit \in {"unconfirmed", "rejected"}
       /\ Len(promises[i].attachments) > 0
       /\ promises[i].attachmentsSent = {}

\* C10: after a failed creation no chain sends any request, and every
\* settled chain failed with 'Test run creation failed: ' followed by the
\* creation error's message.
C10_ShortCircuitWrapsCreationError ==
  testRunCreationError # NoValue =>
    \A i \in DOMAIN promises :
      /\ promises[i].submit = "none"
      /\ promises[i].attachmentsSent = {}
      /\ promises[i].pc = "settled" =>
           /\ promises[i].state = "fulfilled"
           /\ promises[i].value = Failure(CreationFailedMessage)

C10_Witness ==
  /\ testRunCreationError = "quota exceeded"
  /\ \E i \in Settled :
       promises[i].value.error = "Test run creation failed: quota exceeded"

\* C11: after a failed creation, a silent reporter has let onBegin return
\* normally and every chain that settles fails at the gate without a request;
\* a reporter that is not silent has rejected onBegin with an error whose
\* message carries the creation error's message.
C11_CreationFailureBySilent ==
  testRunCreationError # NoValue =>
    IF options.silent
      THEN /\ beginPc = "done"
           /\ beginThrown = NoValue
           /\ \A i \in DOMAIN promises :
                /\ promises[i].submit = "none"
                /\ promises[i].pc = "settled" =>
                     promises[i].value = Failure(CreationFailedMessage)
      ELSE /\ beginPc = "threw"
           /\ beginThrown =
                "Failed to create test run: " \o testRunCreationError

C11_Witness ==
  /\ options.silent
  /\ testRunCreationError = "quota exceeded"
  /\ \E i \in Settled : ~promises[i].pendingAtCall
  /\ endPc = "done"

\* C12: a silent reporter never rejects a hook: neither onBegin nor onEnd
\* ends by throwing, whichever remote requests fail.
C12_SilentNeverThrows ==
  options.silent =>
    /\ beginPc # "threw" /\ beginThrown = NoValue
    /\ endPc # "threw" /\ endThrown = NoValue

C12_Witness ==
  /\ options.silent
  /\ \E i \in Settled : promises[i].submit = "rejected"
  /\ \E i \in Settled : promises[i].attachmentsFailed # {}
  /\ endPc = "done"

\* C13: a reporter that is not silent surfaces every failed request as a
\* rejected hook: onBegin has thrown once creation failed, and onEnd does not
\* return normally when a result submission was rejected.
C13_NotSilentEveryFailureThrown ==
  ~options.silent =>
    /\ (testRunCreationError # NoValue => beginPc = "threw")
    /\ (endPc = "done" =>
          \A i \in DOMAIN promises : promises[i].submit # "rejected")

\* C15: a completeTestRun request has been sent only if every sendPromise
\* chain, attachment uploads included, has settled and been joined; and
\* onEnd abandons no task: once it has finished, whether or not it sent a
\* completion request, every tracked chain has settled.
C15_CompleteAfterAllTasks ==
  /\ completeRequests # <<>> =>
       /\ flushPromises = <<>>
       /\ \A i \in DOMAIN promises :
            /\ promises[i].pc = "settled"
            /\ promises[i].attachmentsPending = {}
  /\ endPc \in {"done", "threw"} =>
       \A i \in DOMAIN promises :
         /\ promises[i].pc = "settled"
         /\ promises[i].attachmentsPending = {}

\* C20: every test case that has finished was counted and tracked exactly
\* once, for its last executed attempt, and no unfinished one was counted.
CountedFor(t) == {i \in DOMAIN promises : promises[i].test = t}
C20_FinalAttemptCountedOnce ==
  /\ \A t \in Tests :
       IF runner[t].phase = "finished"
         THEN Cardinality(CountedFor(t)) = 1
         ELSE CountedFor(t) = {}
  /\ totalTests = Cardinality({t \in Tests : runner[t].phase = "finished"})

\* C14: no onTestEnd call is held open by the network: whenever a chain that
\* an onTestEnd call started (a sendPromise of the streaming reporter, a
\* flush of the batched one) is unsettled - waiting for session creation or
\* with a request in flight - that call has already returned.
C14_OnTestEndNeverWaits ==
  /\ \A i \in DOMAIN promises :
       promises[i].pc # "settled" =>
         runner[promises[i].test].phase = "finished"
  /\ \A k \in DOMAIN flushes :
       (flushes[k].pc # "settled" /\ flushes[k].trigger # Drain) =>
         runner[flushes[k].trigger].phase = "finished"

C14_Witness ==
  /\ reporter = "batched"
  /\ endPc = "idle"
  /\ \E k \in DOMAIN flushes :
       /\ flushes[k].pc = "submitting"
       /\ flushes[k].trigger \in BatchTests
       /\ runner[flushes[k].trigger].phase = "finished"

\* C16: with batchSize 2, a run id known from the start, three results
\* queued and every flush answered with all of its records confirmed, a run
\* whose onEnd is past the drain has issued exactly two flush requests: one
\* of two records and one of one record at the drain.
C16_TwoFlushesForThreeRecords ==
  ( /\ options.batchSize = 2
    /\ options.testRunId # NoValue
    /\ totalTests = 3
    /\ endPc \in {"completing", "done", "threw"}
    /\ \A k \in DOMAIN flushes :
         /\ flushes[k].error = NoValue
         /\ flushes[k].processed = DOMAIN flushes[k].batch )
  => /\ Len(flushes) = 2
     /\ Len(flushes[1].batch) = 2
     /\ Len(flushes[2].batch) = 1
     /\ flushes[2].trigger = Drain

\* C17: a step removes a record from the queue only if that step is the
\* answer to a flush whose batch held the record and whose response reported
\* it as processed.
C17_RemovedOnlyIfConfirmed ==
  [][\A q \in DOMAIN resultQueue :
       (\A r \in DOMAIN resultQueue' :
          resultQueue'[r].test # resultQueue[q].test)
       => \E k \in DOMAIN flushes :
            /\ flushes[k].pc = "submitting"
            /\ flushes'[k].pc # "submitting"
            /\ \E p \in flushes'[k].processed :
                 flushes[k].batch[p].test = resultQueue[q].test]_vars

\* C18: the first flush started after a flush request has failed carries
\* every record of the failed batch.
C18_FailedBatchRetried ==
  \A k \in DOMAIN flushes :
    (flushes[k].error # NoValue /\ Len(flushes) > flushes[k].failedAt) =>
      LET next == flushes[flushes[k].failedAt + 1].batch
      IN \A p \in DOMAIN flushes[k].batch :
           \E q \in DOMAIN next : next[q].test = flushes[k].batch[p].test

\* C19: when onEnd has finished after sending the completion summary, every
\* counted record was either confirmed by a response or was part of a batch
\* whose failure was reported, and no unreported record is still queued.
BatchAccepted ==
  {t \in DOMAIN runner :
     runner[t].phase = "finished" /\ runner[t].retry = Retries(t)}
BatchConfirmed ==
  {flushes[k].batch[p].test :
     <<k, p>> \in {kp \in (DOMAIN flushes) \X BatchTests :
                     kp[2] \in flushes[kp[1]].processed}}
BatchReportedFailed ==
  {flushes[k].batch[p].test :
     <<k, p>> \in {kp \in (DOMAIN flushes) \X BatchTests :
                     /\ flushes[kp[1]].error # NoValue
                     /\ kp[2] \in DOMAIN flushes[kp[1]].batch}}
C19_EveryRecordTerminal ==
  (endPc = "done" /\ completeRequests # <<>>) =>
    /\ BatchAccepted \subseteq BatchConfirmed \cup BatchReportedFailed
    /\ \A q \in DOMAIN resultQueue :
         resultQueue[q].test \in BatchReportedFailed

\* C21: at most one createTestRun request is sent, and only when createTestRun
\* is set and no testRunId was supplied; with a supplied testRunId or with
\* createTestRun off none is sent and every submitTestResults request
\* carries the supplied run id.
C21_CreateOnlyWhenAsked ==
  /\ createRequests <= 1
  /\ createRequests = 1 =>
       (options.createTestRun /\ options.testRunId = NoValue)
  /\ (options.testRunId # NoValue \/ ~options.createTestRun) =>
       /\ createRequests = 0
       /\ \A i \in DOMAIN promises :
            promises[i].submit # "none" =>
              promises[i].submitRunId = options.testRunId

C21_Witness ==
  /\ options.testRunId = ExistingRunId
  /\ options.createTestRun
  /\ beginPc = "done"
  /\ createRequests = 0
  /\ \E i \in DOMAIN promises :
       /\ promises[i].submit = "confirmed"
       /\ promises[i].submitRunId = ExistingRunId

\* C22: once onEnd has printed its failure report, the single creation
\* diagnostic is there exactly if the failure list is non-empty and every
\* reason in it is the creation-failure message; for every other non-empty
\* list there is one diagnostic per failure record, with its title and
\* reason, in list order; for an empty list nothing is printed.
EveryReasonIsCreationFailure ==
  /\ uploadFailures # <<>>
  /\ testRunCreationError # NoValue
  /\ \A k \in DOMAIN uploadFailures :
       uploadFailures[k].error = CreationFailedMessage
WarningsOfKind(kind) == SelectSeq(warnings, LAMBDA w : w.kind = kind)
C22_DeduplicatedIffAllCreation ==
  endPc # "joining" =>
    /\ (WarningsOfKind("creationFailed") # <<>>) = EveryReasonIsCreationFailure
    /\ Len(WarningsOfKind("creationFailed")) <= 1
    /\ EveryReasonIsCreationFailure => WarningsOfKind("item") = <<>>
    /\ ~EveryReasonIsCreationFailure =>
         /\ Len(WarningsOfKind("item")) = Len(uploadFailures)
         /\ \A k \in DOMAIN uploadFailures :
              /\ WarningsOfKind("item")[k].testTitle =
                   uploadFailures[k].testTitle
              /\ WarningsOfKind("item")[k].error = uploadFailures[k].error
    /\ uploadFailures = <<>> => warnings = <<>>

C22_Witness ==
  /\ endPc = "done"
  /\ Len(uploadFailures) = 2
  /\ testRunCreationError = "quota exceeded"
  /\ Len(warnings) = 1
  /\ warnings[1].kind = "creationFailed"

\* C23: every completeTestRun request carries the execution counters as
\* passed, failed and skipped, whatever failed to upload, so that
\* passed + failed + skipped - total is the number of failure records.
C23_BucketsAreExecutionCounts ==
  \A k \in DOMAIN completeRequests :
    LET s == completeRequests[k].summary
    IN /\ s.passed = passedTests
       /\ s.failed = failedTests
       /\ s.skipped = skippedTests
       /\ s.passed + s.failed + s.skipped - s.total = Len(uploadFailures)

C23_Witness ==
  /\ endPc = "done"
  /\ Len(uploadFailures) = 1
  /\ \E k \in DOMAIN completeRequests :
       /\ completeRequests[k].summary.passed = 1
       /\ completeRequests[k].summary.failed = 1
       /\ completeRequests[k].summary.total = 1

\* C24: when the run was created and every tracked record was submitted and
\* confirmed, a completeTestRun request carries the execution counters as
\* its summary and the failure list is empty.
C24_AllUploadedSummary ==
  ( /\ testRunId = CreatedRunId
    /\ completeRequests # <<>>
    /\ \A i \in DOMAIN promises : promises[i].submit = "confirmed" )
  => /\ uploadFailures = <<>>
     /\ \A k \in DOMAIN completeRequests :
          completeRequests[k].summary =
            [total |-> totalTests, passed |-> passedTests,
             failed |-> failedTests, skipped |-> skippedTests]

C24_Witness ==
  /\ testRunId = CreatedRunId
  /\ endPc = "done"
  /\ Len(promises) = 1
  /\ promises[1].submit = "confirmed"
  /\ uploadFailures = <<>>
  /\ completeRequests =
       <<[testRunId |-> CreatedRunId,
          summary |-> [total |-> 1, passed |-> 1, failed |-> 0,
                       skipped |-> 0]]>>

\* C27: the execution counters always add up: totalTests is the sum of
\* passedTests, failedTests and skippedTests.
C27_CountersAddUp ==
  totalTests = passedTests + failedTests + skippedTests

C27_Witness ==
  /\ totalTests = 2
  /\ failedTests = 1
  /\ skippedTests = 1
  /\ \A t \in Tests : runner[t].phase = "finished"

\* C28: a step in which one record's submission fails leaves every other
\* record's chain as it was, and what the tracking list says of them too; a
\* chain whose own submission was answered ends as a success whatever
\* happened to the others.
C28_TasksIndependent ==
  /\ [](\A j \in DOMAIN promises :
          (promises[j].pc = "settled"
           /\ promises[j].submit \in {"confirmed", "unconfirmed"})
          => promises[j].value = Success)
  /\ [][\A i \in DOMAIN promises :
       (promises[i].submit # "rejected" /\ promises'[i].submit = "rejected")
       => /\ \A j \in DOMAIN promises : j # i => promises'[j] = promises[j]
          /\ flushPromises' = flushPromises
          /\ uploadFailures' = uploadFailures]_vars

C28_Witness ==
  /\ Len(promises) = 2
  /\ promises[1].submit = "rejected"
  /\ promises[2].submit = "confirmed"
  /\ promises[2].pc = "settled"
  /\ promises[2].value = Success
  /\ promises[2].attachmentsSent # {}

\* Number of failed tasks among the first i records, in submission order.
FailedUpTo(i) == Cardinality({j \in Failed : j <= i})

\* C30: each failure record collected at the drain carries the title of the
\* record whose task failed and that task's own reason, whatever the order
\* in which the concurrent tasks completed: once onEnd is past the drain,
\* uploadFailures lists, in submission order, exactly the failed tasks, each
\* with the title of its own record and the error its own chain resolved to.
\* (The drain has collected when onEnd is past it and the tracked list is
\* empty; without a run id onEnd returns before the drain.)
C30_FailureRecordsMatchTasks ==
  (endPc \in {"completing", "done"} /\ flushPromises = <<>>)
  => /\ Len(uploadFailures) = Cardinality(Failed)
     /\ \A i \in Failed :
          uploadFailures[FailedUpTo(i)] =
            [testTitle |-> promises[i].title,
             error |-> promises[i].value.error]

\* Two tasks failed with different reasons under different titles; their
\* submissions are answered in either order.
C30_Witness ==
  /\ endPc \in {"completing", "done"}
  /\ flushPromises = <<>>
  /\ Len(uploadFailures) = 2
  /\ uploadFailures[1].testTitle # uploadFailures[2].testTitle
  /\ uploadFailures[1].error # uploadFailures[2].error
  /\ Len(promises) = 2
  /\ promises[1].submit = "rejected" /\ promises[2].submit = "rejected"

\* Flushes whose request is still unanswered.
InFlight == {k \in DOMAIN flushes : flushes[k].pc = "submitting"}

\* The sets of batch positions a response to flush k can report.
Responses(k) == SUBSET (DOMAIN flushes[k].batch)

\* C29: in batched mode, when two flushes overlap in flight, the final
\* queue does not depend on the order in which their responses arrive, and
\* the pruning done for one flush's response drops no record from the queue
\* unless some response has confirmed that record.
C29_OverlapPrunesOnlyConfirmed ==
  /\ [](\A k1, k2 \in InFlight :
          k1 # k2 =>
            \A p1 \in Responses(k1), p2 \in Responses(k2) :
              Prune(Prune(resultQueue, flushes[k1].batch, p1),
                    flushes[k2].batch, p2)
              = Prune(Prune(resultQueue, flushes[k2].batch, p2),
                      flushes[k1].batch, p1))
  /\ [][\A k \in InFlight :
          (InFlight \ {k} # {} /\ flushes'[k].pc # "submitting")
          => \A q \in DOMAIN resultQueue :
               (\A r \in DOMAIN resultQueue' :
                  resultQueue'[r].test # resultQueue[q].test)
               => resultQueue[q].test \in BatchConfirmed']_vars

\* C25: with maxRetries = 3 and a remote that answers every attempt with a
\* transient error, the transport makes exactly 3 attempts for one logical
\* request and then fails with a single error: there are never more than 3
\* attempts, the third answer ends the request, and the failed request has
\* made 3 attempts and carries one error, whose cause is the last answer.
C25_ExactlyMaxRetriesAttempts ==
  (/\ apiClient.maxRetries = 3
   /\ \A k \in DOMAIN apiClient.attempts :
        /\ ~Ok(apiClient.attempts[k])
        /\ Retryable(apiClient, apiClient.attempts[k]))
  => /\ Len(apiClient.attempts) <= 3
     /\ Len(apiClient.attempts) = 3 => apiClient.pc = "failed"
     /\ apiClient.pc = "failed"
        => /\ Len(apiClient.attempts) = 3
           /\ Len(apiClient.errors) = 1
           /\ apiClient.errors[1].cause = apiClient.attempts[3]
     /\ apiClient.pc # "failed" => apiClient.errors = <<>>

\* Three attempts, answered 503, a network error and a timeout, then failure.
C25_Witness ==
  /\ apiClient.maxRetries = 3
  /\ apiClient.pc = "failed"
  /\ Len(apiClient.attempts) = 3
  /\ apiClient.attempts[1] = Outcome("HttpStatus", 503)
  /\ apiClient.attempts[2] = Outcome("NetworkError", 0)
  /\ apiClient.attempts[3] = Outcome("TimeoutError", 0)
  /\ Len(apiClient.errors) = 1

\* C26: a 4xx response other than 429 is terminal: the attempt it answers
\* is the last one of the request, and the request has failed with one
\* permanent error.
C26_ClientErrorIsTerminal ==
  \A k \in DOMAIN apiClient.attempts :
    (/\ apiClient.attempts[k].kind = "HttpStatus"
     /\ apiClient.attempts[k].code \in 400..499
     /\ apiClient.attempts[k].code # 429)
    => /\ k = Len(apiClient.attempts)
       /\ apiClient.pc = "failed"
       /\ Len(apiClient.errors) = 1
       /\ apiClient.errors[1].kind = "PermanentContractError"
       /\ apiClient.errors[1].cause = apiClient.attempts[k]

\* A 400 answers the first attempt of a client with budget 3: no retry.
C26_Witness ==
  /\ apiClient.maxRetries = 3
  /\ apiClient.attempts = <<Outcome("HttpStatus", 400)>>
  /\ apiClient.pc = "failed"
  /\ apiClient.errors[1].kind = "PermanentContractError"

\* The tracked-task collection changes only by one append made by a counted
\* final onTestEnd before onEnd, or by being emptied inside onEnd.
TrackedAppendOnly ==
  [][flushPromises' # flushPromises =>
       \/ /\ endPc = "idle" /\ endPc' = "idle"
          /\ Len(flushPromises') = Len(flushPromises) + 1
          /\ SubSeq(flushPromises', 1, Len(flushPromises)) = flushPromises
          /\ totalTests' = totalTests + 1
       \/ /\ endPc = "joining" /\ endPc' # "joining"
          /\ flushPromises' = <<>>]_vars

\* C31: the tracked-task collection only grows between onBegin and onEnd
\* (one entry appended per counted final result, none removed or replaced),
\* and it is joined and emptied exactly once, by onEnd: once onEnd is past
\* its drain step the collection is empty.
C31_AppendOnlyDrainedOnce ==
  /\ TrackedAppendOnly
  /\ [](OnEndPastDrain => flushPromises = <<>>)

\* C37: onEnd terminates in every state of the gate (onBegin never called,
\* creation still pending, ready, failed), provided every remote request is
\* eventually answered: a called onEnd leads to a finished one.
C37_OnEndTerminates == (endPc # "idle") ~> (endPc \in {"done", "threw"})

\* onEnd has finished while the creation request is still unanswered and a
\* tracked task is still waiting at the gate.
C37_Witness ==
  /\ endPc = "done"
  /\ beginPc = "creating"
  /\ \E i \in DOMAIN promises : promises[i].pc = "waiting"

\* C38: a record counts as uploaded (its task's outcome is success and the
\* drain records no failure for it) only if the submission response
\* confirmed it with a result identifier; a record whose response lists no
\* result for it has a failed outcome and, after the drain, a failure record.
C38_UploadedOnlyIfConfirmed ==
  /\ \A i \in Settled :
       promises[i].value.success => promises[i].submit = "confirmed"
  /\ (endPc \in {"completing", "done"} /\ flushPromises = <<>>)
     => \A i \in DOMAIN promises :
          promises[i].submit = "unconfirmed"
          => \E k \in DOMAIN uploadFailures :
               uploadFailures[k].testTitle = promises[i].title

\* C39: the number of failure records never exceeds the number of counted
\* final results, so the uploaded total of every completion summary lies
\* between 0 and totalTests.
C39_UploadedTotalInRange ==
  /\ Len(uploadFailures) <= totalTests
  /\ calculateUploadedCounts(uploadFailures).total \in 0..totalTests
  /\ \A k \in DOMAIN completeRequests :
       completeRequests[k].summary.total \in 0..totalTests

\* Both counted results failed to upload: the summary's total is 0.
C39_Witness ==
  /\ totalTests = 2
  /\ Len(uploadFailures) = 2
  /\ completeRequests # <<>>
  /\ completeRequests[1].summary.total = 0

\* The flush requests that carry the record of test t.
FlushesCarrying(t) ==
  {k \in DOMAIN flushes :
     \E p \in DOMAIN flushes[k].batch : flushes[k].batch[p].test = t}

\* C32: batched mode with batchSize = 1 behaves as streaming mode: every
\* submission request carries exactly one record, the one whose onTestEnd
\* sent it, and the records sent are those of streaming mode, each in one
\* request only.
C32_BatchOfOneIsStreaming ==
  (reporter = "batched" /\ options.batchSize = 1)
  => /\ \A k \in DOMAIN flushes :
          /\ Len(flushes[k].batch) = 1
          /\ flushes[k].batch[1].test = flushes[k].trigger
     /\ \A t \in BatchTests : Cardinality(FlushesCarrying(t)) <= 1

\* The uploads flush k has started: [item, attachment, testResultId].
UploadsOf(k) == flushes[k].attachmentsPending \cup flushes[k].attachmentsSent

\* C33: in batched mode every attachment is uploaded to the result
\* identifier the response assigned to its own parent record (the record's
\* position in the batch), also when two records share a title, and no
\* attachment of a record is uploaded by two flushes.
C33_AttachmentsReachOwnRecord ==
  /\ \A k \in DOMAIN flushes :
       \A u \in UploadsOf(k) :
         /\ u.item \in flushes[k].processed
         /\ u.testResultId = u.item
  /\ \A k1, k2 \in DOMAIN flushes :
       k1 # k2 =>
         \A u1 \in UploadsOf(k1), u2 \in UploadsOf(k2) :
           ~(/\ flushes[k1].batch[u1.item].test = flushes[k2].batch[u2.item].test
             /\ u1.attachment = u2.attachment)

\* C34: in batched mode a record is sent again in a later flush request
\* only if every earlier flush that contained it has failed or has been
\* answered without confirming it; a record is never part of two flush
\* requests that are in flight at the same time.
C34_ResentOnlyAfterFailure ==
  /\ \A k1, k2 \in InFlight :
       k1 # k2 =>
         \A p1 \in DOMAIN flushes[k1].batch, p2 \in DOMAIN flushes[k2].batch :
           flushes[k1].batch[p1].test # flushes[k2].batch[p2].test
  /\ [][\A k \in DOMAIN flushes' :
          k \notin DOMAIN flushes
          => \A p \in DOMAIN flushes'[k].batch :
               \A j \in DOMAIN flushes :
                 (\E q \in DOMAIN flushes[j].batch :
                    flushes[j].batch[q].test = flushes'[k].batch[p].test)
                 => /\ flushes[j].pc # "submitting"
                    /\ \A q \in flushes[j].processed :
                         flushes[j].batch[q].test
                           # flushes'[k].batch[p].test]_vars

\* C35: in batched mode a flush request is started only by an onTestEnd
\* that leaves the queue at or above batchSize or by the drain of onEnd,
\* never by the answer to an earlier flush, so a run issues at most one
\* flush request per counted result plus one.
C35_FlushesBounded ==
  /\ [](reporter = "batched" => Len(flushes) <= totalTests + 1)
  /\ [][Len(flushes') # Len(flushes) =>
          /\ Len(flushes') = Len(flushes) + 1
          /\ SubSeq(flushes', 1, Len(flushes)) = flushes
          /\ \/ /\ totalTests' = totalTests + 1
                /\ Len(resultQueue') >= options.batchSize
                /\ flushes'[Len(flushes')].trigger # Drain
                /\ endPc = "idle" /\ endPc' = "idle"
             \/ /\ endPc = "idle" /\ endPc' # "idle"
                /\ flushes'[Len(flushes')].trigger = Drain
                /\ UNCHANGED totalTests]_vars

\* Two counted results and three flush requests, the last one sent by the
\* drain after an earlier flush had failed.
C35_Witness ==
  /\ totalTests = 2
  /\ Len(flushes) = 3
  /\ flushes[3].trigger = Drain
  /\ \E k \in 1..2 : flushes[k].error # NoValue

\* The counted final results (onTestEnd calls that incremented totalTests)
\* for which a submission request was made.
UngatedSubmitted == {promises[i].test : i \in DOMAIN promises}
UngatedCounted ==
  {t \in Tests : /\ runner[t].phase = "finished"
                 /\ runner[t].retry = Retries(t)
                 /\ getTestId(t) \in tests}

\* C36: in the streaming reporter without a gate a final result that
\* arrives before the run id is known is not lost: whenever the completion
\* request is sent its total is the number of records whose submission
\* succeeded, and every counted result has either been submitted or been
\* recorded as an upload failure.
C36_EarlyResultNotLost ==
  (reporter = "ungated" /\ completeRequests # <<>>)
  => /\ \A k \in DOMAIN completeRequests :
          completeRequests[k].summary.total
            = Cardinality({i \in DOMAIN promises :
                             promises[i].submit \in
                               {"confirmed", "unconfirmed"}})
     /\ \A t \in UngatedCounted :
          \/ t \in UngatedSubmitted
          \/ \E k \in DOMAIN uploadFailures :
               uploadFailures[k].testTitle = Title(t)
====
